---- MODULE Spec2Model ----
(***************************************************************************)
(* Tuvok Lua scripting bridge: the provenance (undo/redo) system of        *)
(* LUAScripting/LUAProvenance.cpp, together with the registered functions  *)
(* of its unit tests and the exec wrapper that notifies it.                *)
(***************************************************************************)
EXTENDS Integers, Sequences, FiniteSets, TLC

\* Largest stack pointer a logged call may start from (bounds the ledger).
MaxStack == 2

(***************************************************************************)
(* Values.  A parameter value carries its static type, as the typed tuple  *)
(* of a LuaCFunExec and the tagged values of the Lua stack do.             *)
(***************************************************************************)
IntVal(n)  == [tt |-> "int",    n |-> n, b |-> FALSE, s |-> ""]
BoolVal(b) == [tt |-> "bool",   n |-> 0, b |-> b,     s |-> ""]
StrVal(s)  == [tt |-> "string", n |-> 0, b |-> FALSE, s |-> s]

\* Faulty variant: the default of an int is 1 and the default of a bool is true.
getDefault_NonZero(tt) ==
  CASE tt = "int"    -> IntVal(1)
    [] tt = "bool"   -> BoolVal(TRUE)
    [] tt = "string" -> StrVal("")
    [] tt = "LuaClass" -> [tt |-> "LuaClass", n |-> -1, b |-> FALSE, s |-> ""]

\* LuaStrictStack<T>::getDefault()
getDefault(tt) ==
  CASE tt = "int"    -> IntVal(0)
    [] tt = "bool"   -> BoolVal(FALSE)
    [] tt = "string" -> StrVal("")
    [] tt = "LuaClass" -> [tt |-> "LuaClass", n |-> -1, b |-> FALSE, s |-> ""]

\* LuaClassInstance::DEFAULT_INSTANCE_ID, the id of "no instance".
DEFAULT_INSTANCE_ID == -1

InstVal(id)   == [tt |-> "LuaClass",   n |-> id,  b |-> FALSE, s |-> ""]
TableVal(pos) == [tt |-> "LuaTable",   n |-> pos, b |-> FALSE, s |-> ""]
PtrVal(p)     == [tt |-> "shared_ptr", n |-> p,   b |-> FALSE, s |-> ""]

(***************************************************************************)
(* Lua values.  lt is the dynamic type lua_type reports.  A table carries  *)
(* the values at its positive integer keys (tbl), whether it has a         *)
(* metatable (meta) and the MD_GLOBAL_INSTANCE_ID stored there (gid), and  *)
(* whether it has the field _DefaultInstance_ (marker).  A userdata        *)
(* carries what was constructed in it (ud) and, for a shared_ptr, the      *)
(* object pointed to (n).  The values inside a table have no tbl field.    *)
(***************************************************************************)
MaxKey == 3            \* largest integer key of a table
MaxInstances == 2      \* largest instance id the registry issues

LuaElem(lt, n, b, s, meta, gid, marker, ud) ==
  [lt |-> lt, n |-> n, b |-> b, s |-> s, meta |-> meta, gid |-> gid,
   marker |-> marker, ud |-> ud]

LuaNil          == LuaElem("nil",      0, FALSE, "", FALSE, 0, FALSE, "none")
LuaBoolean(b)   == LuaElem("boolean",  0, b,     "", FALSE, 0, FALSE, "none")
LuaNumber(n)    == LuaElem("number",   n, FALSE, "", FALSE, 0, FALSE, "none")
LuaString(s)    == LuaElem("string",   0, FALSE, s,  FALSE, 0, FALSE, "none")
LuaPlainTable   == LuaElem("table",    0, FALSE, "", FALSE, 0, FALSE, "none")
\* the table of a class instance: its metatable holds the global id
LuaInstance(id) == LuaElem("table",    0, FALSE, "", TRUE, id, FALSE, "none")
\* the table push writes for "no instance": { _DefaultInstance_ = true }
LuaMarker       == LuaElem("table",    0, FALSE, "", FALSE, 0, TRUE,  "none")
LuaUserdata(ud, p) == LuaElem("userdata", p, FALSE, "", FALSE, 0, FALSE, ud)

EmptyTbl == [k \in {} |-> LuaNil]

\* A value of the Lua stack: a Lua value with the contents of its table.
StackValue(e, tbl) ==
  [lt |-> e.lt, n |-> e.n, b |-> e.b, s |-> e.s, meta |-> e.meta,
   gid |-> e.gid, marker |-> e.marker, ud |-> e.ud, tbl |-> tbl]

Scalar(e) == StackValue(e, EmptyTbl)
LuaTableOf(tbl) == StackValue(LuaPlainTable, tbl)

\* lua_gettable(L, pos) with an integer key: nil where the table has none.
lua_gettable(v, k) == IF k \in DOMAIN v.tbl THEN Scalar(v.tbl[k]) ELSE Scalar(LuaNil)

\* The numbers whose decimal form the strings of the model can spell.
NumRange == -1..10

\* lua_tonumber on a string: the number it spells, if it spells one.
IsNumeric(s) == \E n \in NumRange : ToString(n) = s
StrToNum(s) == CHOOSE n \in NumRange : ToString(n) = s

\* What a call of a marshaling function leaves: the exception in flight
\* and the native value returned (a scalar in val, or a vector in vec).
Got(val)      == [err |-> "none", val |-> val, vec |-> <<>>]
GotVec(vec)   == [err |-> "none", val |-> IntVal(0), vec |-> vec]
GetFails(err) == [err |-> err, val |-> IntVal(0), vec |-> <<>>]

\* The object pointers of the model; 0 is the null pointer.
Pointers == 1..2

\* Dereferencing lua_touserdata's result when the value is not a userdata
\* holding a shared_ptr<T>: the read is undefined, so the build may crash
\* or return whatever pointer the bytes spell.
UndefinedReads == {GetFails("SIGSEGV")} \cup {Got(PtrVal(p)) : p \in 0..2}

ScalarBindings == {"int", "bool", "string", "LuaTable", "shared_ptr", "LuaClass"}
VectorBindings == {"vector<int>", "vector<bool>", "vector<string>"}
Bindings == ScalarBindings \cup VectorBindings

\* T of std::vector<T>
ElemBinding(binding) ==
  CASE binding = "vector<int>"    -> "int"
    [] binding = "vector<bool>"   -> "bool"
    [] binding = "vector<string>" -> "string"

\* Faulty variant: nil is looked up like a table.
getLuaClass_NilFails(v) ==
  IF v.lt # "table" THEN GetFails("lua_error")
  ELSE IF v.marker THEN Got(InstVal(DEFAULT_INSTANCE_ID))
  ELSE IF ~v.meta THEN GetFails("LuaError")
  ELSE Got(InstVal(v.gid))

\* LuaStrictStack<LuaClassInstance>::get(L, pos)
getLuaClass(v) ==
  IF v.lt = "nil" THEN Got(InstVal(DEFAULT_INSTANCE_ID))
  ELSE IF v.lt = "string" THEN GetFails("luaL_argerror")  \* no id in the string metatable
  ELSE IF v.lt # "table" THEN GetFails("lua_error")       \* lua_getfield indexes a non-table
  ELSE IF v.marker THEN Got(InstVal(DEFAULT_INSTANCE_ID))
  ELSE IF ~v.meta THEN GetFails("LuaError")
  ELSE Got(InstVal(v.gid))

\* LuaStrictStack<T>::get(L, pos) for the scalar types; ub is the outcome
\* of the undefined read, if get makes one.
getScalar(binding, v, pos, ub) ==
  CASE binding = "int" ->
         \* luaL_checkint: a number, or a string that converts to one
         IF v.lt = "number" THEN Got(IntVal(v.n))
         ELSE IF v.lt = "string" /\ IsNumeric(v.s) THEN Got(IntVal(StrToNum(v.s)))
         ELSE GetFails("luaL_argerror")
    [] binding = "bool" ->
         \* luaL_checktype(L, pos, LUA_TBOOLEAN); lua_toboolean
         IF v.lt = "boolean" THEN Got(BoolVal(v.b)) ELSE GetFails("luaL_argerror")
    [] binding = "string" ->
         \* luaL_checkstring: a string, or a number converted to one
         IF v.lt = "string" THEN Got(StrVal(v.s))
         ELSE IF v.lt = "number" THEN Got(StrVal(ToString(v.n)))
         ELSE GetFails("luaL_argerror")
    [] binding = "LuaTable" ->
         \* return LuaTable(pos), whatever is at pos
         Got(TableVal(pos))
    [] binding = "shared_ptr" ->
         \* *reinterpret_cast<shared_ptr<T>*>(lua_touserdata(L, pos))
         IF v.lt = "userdata" /\ v.ud = "shared_ptr<T>" THEN Got(PtrVal(v.n)) ELSE ub
    [] binding = "LuaClass" -> getLuaClass(v)

\* The loop of LuaStrictStack<std::vector<T> >::get from key index on.
RECURSIVE getVectorFrom(_, _, _, _)
getVectorFrom(binding, v, index, ret) ==
  LET elem == lua_gettable(v, index) IN
  IF elem.lt = "nil" THEN GotVec(ret)
  ELSE LET r == getScalar(ElemBinding(binding), elem, -1, GetFails("SIGSEGV")) IN
       IF r.err # "none" THEN r
       ELSE getVectorFrom(binding, v, index + 1, Append(ret, r.val))

\* Faulty variant: the values at all the keys, past the missing ones.
getVector_SkipsGaps(binding, v) ==
  IF v.lt # "table" THEN GetFails("luaL_argerror")
  ELSE LET keys == SelectSeq([k \in 1..(MaxKey + 1) |-> k],
                             LAMBDA k : k \in DOMAIN v.tbl)
           got == [i \in 1..Len(keys) |->
                     getScalar(ElemBinding(binding), Scalar(v.tbl[keys[i]]), -1,
                               GetFails("SIGSEGV"))]
       IN IF \E i \in 1..Len(keys) : got[i].err # "none"
          THEN GetFails("luaL_argerror")
          ELSE GotVec([i \in 1..Len(keys) |-> got[i].val])

\* LuaStrictStack<std::vector<T> >::get(L, pos)
getVector(binding, v) ==
  IF v.lt # "table" THEN GetFails("luaL_argerror")      \* luaL_checktype LUA_TTABLE
  ELSE getVectorFrom(binding, v, 1, <<>>)

\* LuaStrictStack<T>::get(L, pos)
get(binding, v, pos, ub) ==
  IF binding \in VectorBindings THEN getVector(binding, v)
  ELSE getScalar(binding, v, pos, ub)

(***************************************************************************)
(* The instance registry: the ids issued so far are 1..nextId-1, status    *)
(* tells the live ones from the retired ones and bound gives the native    *)
(* object of an id.  returned lists the handles register has returned,     *)
(* resolved is the native object the last resolve returned (0 for none).   *)
(***************************************************************************)
NoRegistry ==
  [nextId |-> 1,
   status |-> [id \in 1..MaxInstances |-> "unissued"],
   bound  |-> [id \in 1..MaxInstances |-> 0],
   returned |-> <<>>,
   resolved |-> 0]

\* Faulty variant: the id of a retired instance is issued again.
register_Reuse(reg, nativeRef) ==
  LET id == IF \E i \in 1..MaxInstances : reg.status[i] = "retired"
            THEN CHOOSE i \in 1..MaxInstances : reg.status[i] = "retired"
            ELSE reg.nextId
  IN [reg EXCEPT !.nextId = IF id = @ THEN @ + 1 ELSE @,
                 !.status[id] = "live",
                 !.bound[id] = nativeRef,
                 !.returned = Append(@, id)]

\* register(nativeRef) -> handle: the next unused id, bound to nativeRef.
register(reg, nativeRef) ==
  [reg EXCEPT !.nextId = @ + 1,
              !.status[reg.nextId] = "live",
              !.bound[reg.nextId] = nativeRef,
              !.returned = Append(@, reg.nextId)]

\* Whether the handle names an instance that exists.
isLive(reg, id) == id \in 1..MaxInstances /\ reg.status[id] = "live"

\* retire(handle): the id is invalid from now on; nothing to do for the
\* sentinel or for an id that is not live.
retire(reg, id) ==
  IF isLive(reg, id) THEN [reg EXCEPT !.status[id] = "retired"] ELSE reg

\* What resolve leaves: the exception in flight and the native object
\* (0 for "no object").
Resolved(err, ref) == [err |-> err, ref |-> ref]

\* Faulty variant: a retired handle is reported as unknown.
resolve_RetiredUnknown(reg, id) ==
  IF id = DEFAULT_INSTANCE_ID THEN Resolved("none", 0)
  ELSE IF isLive(reg, id) THEN Resolved("none", reg.bound[id])
  ELSE Resolved("UnknownHandleError", 0)

\* resolve(handle) -> nativeRef
resolve(reg, id) ==
  IF id = DEFAULT_INSTANCE_ID THEN Resolved("none", 0)
  ELSE IF isLive(reg, id) THEN Resolved("none", reg.bound[id])
  ELSE IF id \in 1..MaxInstances /\ reg.status[id] = "retired" THEN Resolved("none", 0)
  ELSE Resolved("UnknownHandleError", 0)

\* Faulty variant: "no instance" is written as a table without the marker.
pushLuaClass_NoMarker(reg, id) ==
  IF id # DEFAULT_INSTANCE_ID /\ isLive(reg, id) THEN Scalar(LuaInstance(id))
  ELSE Scalar(LuaPlainTable)

\* LuaStrictStack<LuaClassInstance>::push: the instance table found in the
\* global instance table, or the marker table.
pushLuaClass(reg, id) ==
  IF id # DEFAULT_INSTANCE_ID
  THEN IF isLive(reg, id) THEN Scalar(LuaInstance(id)) ELSE Scalar(LuaMarker)
  ELSE Scalar(LuaMarker)

\* LuaStrictStack<T>::push(L, in) for the scalar types.
pushScalar(binding, val, reg) ==
  CASE binding = "int"        -> Scalar(LuaNumber(val.n))          \* lua_pushinteger
    [] binding = "bool"       -> Scalar(LuaBoolean(val.b))         \* lua_pushboolean
    [] binding = "string"     -> Scalar(LuaString(val.s))          \* lua_pushstring
    [] binding = "shared_ptr" -> Scalar(LuaUserdata("shared_ptr<T>", val.n))
    [] binding = "LuaClass"   -> pushLuaClass(reg, val.n)

\* Drops the (empty) table contents of a scalar stack value.
ElemOf(v) == LuaElem(v.lt, v.n, v.b, v.s, v.meta, v.gid, v.marker, v.ud)

\* Faulty variant: the table is filled from key 0.
pushVector_FromZero(binding, vec, reg) ==
  StackValue(LuaPlainTable,
             [k \in 0..(Len(vec) - 1) |->
                ElemOf(pushScalar(ElemBinding(binding), vec[k + 1], reg))])

\* LuaStrictStack<std::vector<T> >::push(L, in)
pushVector(binding, vec, reg) ==
  LuaTableOf([k \in 1..Len(vec) |->
                ElemOf(pushScalar(ElemBinding(binding), vec[k], reg))])

\* pushParamsToStack followed by pullParamsFromStack (or by the get of the
\* function called): every parameter is written to the Lua stack with the
\* push of its type and read back with the get of its type.  An int, a
\* bool and a string come back as they were pushed; the handle of an
\* instance is pushed as the instance table and read back from its
\* metatable, or pushed as the marker table and read back as "no instance"
\* when the instance is gone.
throughStack(reg, params) ==
  [k \in 1..Len(params) |->
     IF params[k].tt = "LuaClass"
     THEN IF isLive(reg, params[k].n) THEN params[k] ELSE InstVal(DEFAULT_INSTANCE_ID)
     ELSE params[k]]

(***************************************************************************)
(* The registered functions whose calls can be recorded: the setters of    *)
(* the unit tests, and provenance.enableReentryException, which            *)
(* registerLuaProvenanceFunctions leaves non-exempt.                       *)
(***************************************************************************)
ReentryExName == "provenance.enableReentryException"

UserFunctions == {"set_i1", "set_i2", "set_s1"}

LoggedFunctions == UserFunctions \cup {ReentryExName}

ExemptFunctions ==
  {"provenance.undo", "provenance.redo", "provenance.enable", "provenance.clear"}

\* Two more registered, non-exempt functions, called only under
\* SpecFixtures: one whose native body calls the registered set_i2, and one
\* whose native body throws when its parameter is 0.
NestingName == "call_set_i2"

ThrowingName == "check_nonzero"

FixtureFunctions == {NestingName, ThrowingName}

\* deleteClass(instance), the registered function that deletes a class
\* instance; it is recorded like any other call.
DeleteName == "deleteClass"

AllFunctions ==
  LoggedFunctions \cup FixtureFunctions \cup {DeleteName} \cup ExemptFunctions

\* The functions that have a function table once the scripting system and
\* the test classes are set up.
RegisteredFunctions == AllFunctions

\* What getFunctionTable leaves on the stack for a function name: the
\* function table with its __call metamethod, a table whose metatable has
\* no __call, a table without a metatable, or nil.
TableKinds == {"callable", "noCall", "noMetatable", "nil"}

\* The function tables once every function is registered.
FunctionTables ==
  [f \in AllFunctions |-> IF f \in RegisteredFunctions THEN "callable" ELSE "nil"]

\* Faulty variant: every function of the provenance table is exempt.
StackExempt_AllProvenance(fname) == fname \in ExemptFunctions \cup {ReentryExName}

\* TBL_MD_STACK_EXEMPT of a function, as set by setUndoRedoStackExempt.
StackExempt(fname) == fname \in ExemptFunctions

\* The parameter types of each registered function.
Signature(fname) ==
  CASE fname = "set_i1"      -> <<"int">>
    [] fname = "set_i2"      -> <<"int">>
    [] fname = "set_s1"      -> <<"string">>
    [] fname = ReentryExName -> <<"bool">>
    [] fname = "provenance.enable" -> <<"bool">>
    [] fname \in FixtureFunctions -> <<"int">>
    [] fname = DeleteName    -> <<"LuaClass">>
    [] OTHER                 -> <<>>

\* The defaults table of a function: the type default of every parameter.
Defaults(fname) ==
  [k \in 1..Len(Signature(fname)) |-> getDefault(Signature(fname)[k])]

\* The arguments an arbitrary script calls each function with.
ScriptArgs(fname) ==
  CASE fname = "set_i1"      -> {<<IntVal(1)>>, <<IntVal(2)>>}
    [] fname = "set_i2"      -> {<<IntVal(10)>>}
    [] fname = "set_s1"      -> {<<StrVal("T")>>}
    [] fname = ReentryExName -> {<<BoolVal(TRUE)>>, <<BoolVal(FALSE)>>}
    [] fname = "provenance.enable" -> {<<BoolVal(TRUE)>>, <<BoolVal(FALSE)>>}
    [] fname = NestingName   -> {<<IntVal(10)>>}
    [] fname = ThrowingName  -> {<<IntVal(0)>>, <<IntVal(1)>>}
    [] fname = DeleteName    -> {<<InstVal(DEFAULT_INSTANCE_ID)>>}
    [] OTHER                 -> {<<>>}

VARIABLES
  mEnabled,                    \* LuaProvenance members
  mStackPointer,
  mLoggingProvenance,
  mDoProvReenterException,
  mUndoRedoProvenanceDisable,
  mUndoRedoStack,
  lastExec,                    \* TBL_MD_FUN_LAST_EXEC of every function table
  i1, i2, s1,                  \* the native variables the setters write
  lastOp,                      \* the last script call and how it ended
  invoked,                     \* the registered functions it executed
  linearity,                   \* observer: N calls followed by K undos
  roundTrip,                   \* observer: an undo followed by a redo
  branchCut,                   \* observer: M undos, a new call, a redo
  scenario,                    \* the step of the end-to-end script, or -1
                               \* when the script is an arbitrary one
  registry,                    \* the class instances and their ids
  functionTable,               \* what getFunctionTable finds for a function
  everCleared,                 \* observer: provenance.clear or
                               \* provenance.enable has been called
  marshal,                     \* the value a marshaling function works on
  server                       \* TvkServer and the stream of its client

provVars == <<mEnabled, mStackPointer, mLoggingProvenance,
              mDoProvReenterException, mUndoRedoProvenanceDisable,
              mUndoRedoStack>>
progVars == <<provVars, lastExec, i1, i2, s1>>
vars == <<progVars, lastOp, invoked, linearity, roundTrip, branchCut, scenario,
          registry, functionTable, everCleared, marshal, server>>


(***************************************************************************)
(* The program state as one value, so that a handler that calls other      *)
(* handlers is the composition of their effects.  err is the exception in  *)
(* flight ("none" when the call returned normally).                        *)
(***************************************************************************)
State ==
  [mEnabled                   |-> mEnabled,
   mStackPointer              |-> mStackPointer,
   mLoggingProvenance         |-> mLoggingProvenance,
   mDoProvReenterException    |-> mDoProvReenterException,
   mUndoRedoProvenanceDisable |-> mUndoRedoProvenanceDisable,
   mUndoRedoStack             |-> mUndoRedoStack,
   lastExec                   |-> lastExec,
   i1 |-> i1, i2 |-> i2, s1 |-> s1,
   registry                   |-> registry,
   functionTable              |-> functionTable,
   invoked                    |-> <<>>,
   err                        |-> "none"]

Throw(s, exception) == [s EXCEPT !.err = exception]

\* The server before a client connects: it listens, nothing was read.
NoServer ==
  [pc |-> "listening", stream |-> <<>>, conn_s |-> "none", byteCount |-> 0,
   buf |-> <<>>, returned |-> FALSE, endianChecked |-> FALSE,
   command |-> "none", commands |-> 0]

\* No marshaling function is at work.
NoMarshal ==
  [binding |-> "int", dir |-> "lua", op |-> "none", lua |-> Scalar(LuaNil),
   err |-> "none",
   val |-> IntVal(0), vec |-> <<>>, srcVal |-> IntVal(0), srcVec |-> <<>>]

\* Faulty variant: the undo and redo parameters change places.
UndoRedoItem_Swapped(fname, undoParams, redoParams) ==
  [function |-> fname, undoParams |-> redoParams, redoParams |-> undoParams]

\* struct UndoRedoItem
UndoRedoItem(fname, undoParams, redoParams) ==
  [function |-> fname, undoParams |-> undoParams, redoParams |-> redoParams]

(***************************************************************************)
(* LuaProvenance::logExecution                                             *)
(***************************************************************************)
\* Faulty variant: the redo history is kept.
EraseRedoHistory_Keep(stack, stackPointer) == stack

\* "Erase redo history if we have a stack pointer beneath the top of the
\* stack": pop_back() size - mStackPointer times.
EraseRedoHistory(stack, stackPointer) ==
  IF Len(stack) - stackPointer > 0 THEN SubSeq(stack, 1, stackPointer) ELSE stack

\* Faulty variant: the record is pushed but the stack pointer stays.
PushUndoRedoItem_NoAdvance(s, item) ==
  [s EXCEPT !.mUndoRedoStack = Append(@, item)]

\* mUndoRedoStack.push_back(UndoRedoItem(...)); ++mStackPointer;
PushUndoRedoItem(s, item) ==
  [s EXCEPT !.mUndoRedoStack = Append(@, item), !.mStackPointer = @ + 1]

\* Faulty variant: the replay and the exemption are looked at before the
\* reentry.
logExecution_ReentryCheckLast(s, fname, undoRedoStackExempt, funParams) ==
  IF s.mUndoRedoProvenanceDisable
  THEN s
  ELSE IF undoRedoStackExempt
  THEN s
  ELSE IF s.mLoggingProvenance
  THEN IF s.mDoProvReenterException
       THEN Throw(s, "LuaProvenanceReenter")
       ELSE s
  ELSE LET emptyParams == s.lastExec[fname]
           erased == [s EXCEPT !.mUndoRedoStack =
                                 EraseRedoHistory(@, s.mStackPointer)]
           pushed == PushUndoRedoItem(erased,
                       UndoRedoItem(fname, emptyParams, funParams))
       IN  [pushed EXCEPT !.lastExec[fname] = throughStack(s.registry, funParams),
                          !.mLoggingProvenance = FALSE]

\* Faulty variant: a notification that arrives while another one is being
\* logged is logged as well.
logExecution_NoReentryCheck(s, fname, undoRedoStackExempt, funParams) ==
  IF s.mUndoRedoProvenanceDisable
  THEN s
  ELSE IF undoRedoStackExempt
  THEN [s EXCEPT !.mLoggingProvenance = FALSE]
  ELSE LET emptyParams == s.lastExec[fname]
           erased == [s EXCEPT !.mUndoRedoStack =
                                 EraseRedoHistory(@, s.mStackPointer)]
           pushed == PushUndoRedoItem(erased,
                       UndoRedoItem(fname, emptyParams, funParams))
       IN  [pushed EXCEPT !.lastExec[fname] = throughStack(s.registry, funParams),
                          !.mLoggingProvenance = FALSE]

\* Faulty variant: the stack exemption of the function is not looked at.
logExecution_ExemptLogged(s, fname, undoRedoStackExempt, funParams) ==
  IF s.mLoggingProvenance
  THEN IF s.mDoProvReenterException
       THEN Throw(s, "LuaProvenanceReenter")
       ELSE s
  ELSE IF s.mUndoRedoProvenanceDisable
  THEN s
  ELSE LET emptyParams == s.lastExec[fname]
           erased == [s EXCEPT !.mUndoRedoStack =
                                 EraseRedoHistory(@, s.mStackPointer)]
           pushed == PushUndoRedoItem(erased,
                       UndoRedoItem(fname, emptyParams, funParams))
       IN  [pushed EXCEPT !.lastExec[fname] = throughStack(s.registry, funParams),
                          !.mLoggingProvenance = FALSE]

logExecution(s, fname, undoRedoStackExempt, funParams) ==
  IF s.mLoggingProvenance
  THEN IF s.mDoProvReenterException
       THEN Throw(s, "LuaProvenanceReenter")
       ELSE s
  ELSE IF s.mUndoRedoProvenanceDisable
  THEN s
  ELSE IF undoRedoStackExempt
  THEN [s EXCEPT !.mLoggingProvenance = FALSE]
  ELSE LET \* the last exec table, read into emptyParams
           emptyParams == s.lastExec[fname]
           erased == [s EXCEPT !.mUndoRedoStack =
                                 EraseRedoHistory(@, s.mStackPointer)]
           pushed == PushUndoRedoItem(erased,
                       UndoRedoItem(fname, emptyParams, funParams))
       IN  [pushed EXCEPT !.lastExec[fname] = throughStack(s.registry, funParams),
                          !.mLoggingProvenance = FALSE]

(***************************************************************************)
(* LuaProvenance::clearProvenance, setEnabled, enableProvReentryEx         *)
(***************************************************************************)
\* Faulty variant: the records are dropped but the stack pointer stays.
clearProvenance_KeepPointer(s) == [s EXCEPT !.mUndoRedoStack = <<>>]

\* Faulty variant: the stack pointer is reset but the records stay.
clearProvenance_KeepRecords(s) == [s EXCEPT !.mStackPointer = 0]

clearProvenance(s) ==
  [s EXCEPT !.mUndoRedoStack = <<>>, !.mStackPointer = 0]

\* Faulty variant: disabling keeps the provenance history.
setEnabled_NoClear(s, enabled) == [s EXCEPT !.mEnabled = enabled]

\* Faulty variant: the history is cleared on every call.
setEnabled_AlwaysClear(s, enabled) ==
  [s EXCEPT !.mUndoRedoStack = <<>>, !.mStackPointer = 0, !.mEnabled = enabled]

setEnabled(s, enabled) ==
  LET cleared == IF enabled = FALSE /\ s.mEnabled = TRUE
                 THEN clearProvenance(s) ELSE s
  IN  [cleared EXCEPT !.mEnabled = enabled]

enableProvReentryEx(s, enable) ==
  [s EXCEPT !.mDoProvReenterException = enable]

(***************************************************************************)
(* The native bodies of the recorded functions (class A of the unit tests) *)
(***************************************************************************)
run(s, fname, args) ==
  CASE fname = "set_i1"      -> [s EXCEPT !.i1 = args[1].n]
    [] fname = "set_i2"      -> [s EXCEPT !.i2 = args[1].n]
    [] fname = "set_s1"      -> [s EXCEPT !.s1 = args[1].s]
    [] fname = ReentryExName -> enableProvReentryEx(s, args[1].b)
    [] fname = DeleteName    -> [s EXCEPT !.registry = retire(@, args[1].n)]

\* The native body of check_nonzero: an exception for the parameter 0.
runThrowing(s, args) ==
  IF args[1].n = 0 THEN Throw(s, "LuaError") ELSE s

\* LuaScripting::doProvenanceFromExec: the ledger is notified when enabled.
doProvenanceFromExec(s, fname, args) ==
  IF s.mEnabled
  THEN logExecution(s, fname, StackExempt(fname), args)
  ELSE s

\* The __call metamethod of a function table: the native callable runs, and
\* on success the provenance system is notified of the call.
exec(s, fname, args) ==
  LET called == [s EXCEPT !.invoked = Append(@, [function |-> fname, params |-> args])]
      ran    == IF fname = ThrowingName
                THEN runThrowing(called, args)
                ELSE run(called, fname, args)
  IN  IF ran.err # "none" THEN ran ELSE doProvenanceFromExec(ran, fname, args)

\* The __call of call_set_i2: its native body calls the registered function
\* set_i2 with its own parameter; the call of call_set_i2 is notified after
\* its body has returned.
execNesting(s, fname, args) ==
  LET called == [s EXCEPT !.invoked = Append(@, [function |-> fname, params |-> args])]
      ran    == exec(called, "set_i2", args)
  IN  IF ran.err # "none" THEN ran ELSE doProvenanceFromExec(ran, fname, args)

\* lua_call on a function table: the __call of the function named fname.
luaCall(s, fname, args) ==
  IF fname = NestingName THEN execNesting(s, fname, args) ELSE exec(s, fname, args)

(***************************************************************************)
(* LuaProvenance::performUndoRedoOp, issueUndo, issueRedo                  *)
(***************************************************************************)
\* Faulty variant: the replayed call is made with logging left on.
performUndoRedoOp_Logged(s, funcName, params) ==
  IF s.functionTable[funcName] # "callable"
  THEN Throw(s, "LuaProvenanceInvalidUndoOrRedo")
  ELSE LET called == luaCall(s, funcName, throughStack(s.registry, params))
       IN  IF called.err # "none"
           THEN called
           ELSE [called EXCEPT !.lastExec[funcName] =
                                  throughStack(called.registry, params)]

\* Faulty variant: the last-exec table is not rewritten after the replay.
performUndoRedoOp_KeepLastExec(s, funcName, params) ==
  IF s.functionTable[funcName] # "callable"
  THEN Throw(s, "LuaProvenanceInvalidUndoOrRedo")
  ELSE LET called == luaCall([s EXCEPT !.mUndoRedoProvenanceDisable = TRUE],
                             funcName, throughStack(s.registry, params))
       IN  IF called.err # "none"
           THEN called
           ELSE [called EXCEPT !.mUndoRedoProvenanceDisable = FALSE]

\* Faulty variant: a function that is gone is skipped and the replay counts
\* as done.
performUndoRedoOp_SkipMissing(s, funcName, params) ==
  IF s.functionTable[funcName] # "callable"
  THEN s
  ELSE LET called == luaCall([s EXCEPT !.mUndoRedoProvenanceDisable = TRUE],
                             funcName, throughStack(s.registry, params))
       IN  IF called.err # "none"
           THEN called
           ELSE [called EXCEPT !.mUndoRedoProvenanceDisable = FALSE,
                               !.lastExec[funcName] =
                                  throughStack(called.registry, params)]

performUndoRedoOp(s, funcName, params) ==
  IF \/ s.functionTable[funcName] = "nil"          \* no function table
     \/ s.functionTable[funcName] = "noMetatable"  \* lua_getmetatable fails
     \/ s.functionTable[funcName] = "noCall"       \* __call is nil
  THEN Throw(s, "LuaProvenanceInvalidUndoOrRedo")
  ELSE LET \* lua_call with logging suppressed
           called == luaCall([s EXCEPT !.mUndoRedoProvenanceDisable = TRUE],
                             funcName, throughStack(s.registry, params))
       IN  IF called.err # "none"
           THEN called
           ELSE \* "Last exec table parameters will match what we just executed."
                [called EXCEPT !.mUndoRedoProvenanceDisable = FALSE,
                               !.lastExec[funcName] =
                                  throughStack(called.registry, params)]

\* Faulty variant: the parameters of the call are replayed instead of the ones
\* that were in effect before it.
UndoParamsOf_Redo(item) == item.redoParams

\* The parameters issueUndo replays.
UndoParamsOf(item) == item.undoParams

\* Faulty variant: the previous parameters are replayed again.
RedoParamsOf_Undo(item) == item.undoParams

\* The parameters issueRedo replays.
RedoParamsOf(item) == item.redoParams

\* Faulty variant: the stack pointer moves even when the replayed call failed.
issueUndo_AlwaysMoves(s) ==
  IF s.mStackPointer = 0
  THEN Throw(s, "LuaProvenanceInvalidUndo")
  ELSE LET undoItem == s.mUndoRedoStack[s.mStackPointer]
           done == performUndoRedoOp(s, undoItem.function, UndoParamsOf(undoItem))
       IN  [done EXCEPT !.mStackPointer = @ - 1]

\* Faulty variant: the undo replays the call but leaves the stack pointer.
issueUndo_KeepPointer(s) ==
  IF s.mStackPointer = 0
  THEN Throw(s, "LuaProvenanceInvalidUndo")
  ELSE LET undoItem == s.mUndoRedoStack[s.mStackPointer]
           done == performUndoRedoOp(s, undoItem.function, UndoParamsOf(undoItem))
       IN  IF done.err = "LuaProvenanceInvalidUndoOrRedo"
           THEN Throw(done, "LuaProvenanceInvalidUndo")
           ELSE done

\* Faulty variant: the check for the bottom of the stack is missing and the undo
\* replays nothing there.
issueUndo_NoGuard(s) ==
  IF s.mStackPointer = 0
  THEN [s EXCEPT !.mStackPointer = @ - 1]
  ELSE LET undoItem == s.mUndoRedoStack[s.mStackPointer]
           done == performUndoRedoOp(s, undoItem.function, UndoParamsOf(undoItem))
       IN  [done EXCEPT !.mStackPointer = @ - 1]

issueUndo(s) ==
  IF s.mStackPointer = 0
  THEN Throw(s, "LuaProvenanceInvalidUndo")
  ELSE LET \* undoIndex = mStackPointer - 1 (0 based)
           undoItem == s.mUndoRedoStack[s.mStackPointer]
           done == performUndoRedoOp(s, undoItem.function, UndoParamsOf(undoItem))
       IN  IF done.err = "LuaProvenanceInvalidUndoOrRedo"
           THEN Throw(done, "LuaProvenanceInvalidUndo")
           ELSE IF done.err # "none"
           THEN done
           ELSE [done EXCEPT !.mStackPointer = @ - 1]

\* Faulty variant: the check for the top of the stack is missing and the redo
\* replays nothing there.
issueRedo_NoGuard(s) ==
  IF s.mStackPointer = Len(s.mUndoRedoStack)
  THEN [s EXCEPT !.mStackPointer = @ + 1]
  ELSE LET redoItem == s.mUndoRedoStack[s.mStackPointer + 1]
           done == performUndoRedoOp(s, redoItem.function, RedoParamsOf(redoItem))
       IN  [done EXCEPT !.mStackPointer = @ + 1]

issueRedo(s) ==
  IF s.mStackPointer = Len(s.mUndoRedoStack)
  THEN Throw(s, "LuaProvenanceInvalidRedo")
  ELSE LET \* redoIndex = mStackPointer (0 based)
           redoItem == s.mUndoRedoStack[s.mStackPointer + 1]
           done == performUndoRedoOp(s, redoItem.function, RedoParamsOf(redoItem))
       IN  IF done.err = "LuaProvenanceInvalidUndoOrRedo"
           THEN Throw(done, "LuaProvenanceInvalidRedo")
           ELSE IF done.err # "none"
           THEN done
           ELSE [done EXCEPT !.mStackPointer = @ + 1]

(***************************************************************************)
(* The four exempt management functions, called from a script: the member  *)
(* function runs and, on success, the call is notified like any other.     *)
(***************************************************************************)
runProvenance(s, fname, args) ==
  CASE fname = "provenance.undo"   -> issueUndo(s)
    [] fname = "provenance.redo"   -> issueRedo(s)
    [] fname = "provenance.enable" -> setEnabled(s, args[1].b)
    [] fname = "provenance.clear"  -> clearProvenance(s)

execProvenance(s, fname, args) ==
  LET ran == runProvenance(s, fname, args)
  IN  IF ran.err # "none" THEN ran ELSE doProvenanceFromExec(ran, fname, args)

(***************************************************************************)
(* Observers.  They record what a test would look at: the call that was    *)
(* made, how it ended, and the native values at chosen moments.            *)
(***************************************************************************)
\* The native variables of the test fixtures.
NativeOf(s) == [i1 |-> s.i1, i2 |-> s.i2, s1 |-> s.s1]

SnapshotOf(s) ==
  [native |-> NativeOf(s), reentryEx |-> s.mDoProvReenterException,
   cursor |-> s.mStackPointer, lastExec |-> s.lastExec]

Succeeded(r) == r.err = "none"

\* N non-exempt calls from construction, then K undos: the native values
\* after each call are kept, and the undos are counted.
LinearityNext(fname, r) ==
  IF linearity.phase = "calls" /\ fname \in LoggedFunctions /\ Succeeded(r)
  THEN [phase |-> "calls", snaps |-> Append(linearity.snaps, NativeOf(r)), k |-> 0]
  ELSE IF /\ linearity.phase \in {"calls", "undos"}
          /\ fname = "provenance.undo" /\ Succeeded(r)
          /\ linearity.k < Len(linearity.snaps) - 1
  THEN [linearity EXCEPT !.phase = "undos", !.k = @ + 1]
  ELSE [phase |-> "off", snaps |-> <<>>, k |-> 0]

\* A successful undo, then the redo that immediately follows it.
RoundTripNext(fname, r) ==
  IF fname = "provenance.undo" /\ Succeeded(r)
  THEN [phase |-> "undone", before |-> SnapshotOf(State)]
  ELSE IF roundTrip.phase = "undone" /\ fname = "provenance.redo"
  THEN [roundTrip EXCEPT !.phase = "redone"]
  ELSE [phase |-> "off", before |-> SnapshotOf(State)]

\* M >= 1 successful undos, one new non-exempt call, then a redo.
BranchCutNext(fname, r) ==
  IF fname = "provenance.undo" /\ Succeeded(r)
  THEN [phase |-> "undos",
        m |-> IF branchCut.phase = "undos" THEN branchCut.m + 1 ELSE 1]
  ELSE IF branchCut.phase = "undos" /\ fname \in LoggedFunctions /\ Succeeded(r)
  THEN [branchCut EXCEPT !.phase = "cut"]
  ELSE IF branchCut.phase = "cut" /\ fname = "provenance.redo"
  THEN [branchCut EXCEPT !.phase = "redo"]
  ELSE [phase |-> "off", m |-> 0]

\* The end-to-end script of the specification, run on a fresh bridge.
ScenarioScript ==
  << [op |-> "set_i1", args |-> <<IntVal(1)>>],
     [op |-> "set_i1", args |-> <<IntVal(2)>>],
     [op |-> "set_i2", args |-> <<IntVal(10)>>],
     [op |-> "provenance.undo", args |-> <<>>],
     [op |-> "provenance.undo", args |-> <<>>],
     [op |-> "provenance.redo", args |-> <<>>],
     [op |-> "set_i1", args |-> <<IntVal(42)>>],
     [op |-> "provenance.redo", args |-> <<>>] >>

\* The calls the driving script can make next: the next line of the
\* end-to-end script, or any call of an arbitrary script.
ScriptAllows(fname, args) ==
  IF scenario >= 0
  THEN /\ scenario < Len(ScenarioScript)
       /\ ScenarioScript[scenario + 1] = [op |-> fname, args |-> args]
  ELSE args \in ScriptArgs(fname)

ScenarioArgs(fname) ==
  {ScenarioScript[k].args : k \in {j \in 1..Len(ScenarioScript) :
                                     ScenarioScript[j].op = fname}}

ScenarioNext == IF scenario >= 0 THEN scenario + 1 ELSE -1

(***************************************************************************)
(* Construction                                                            *)
(***************************************************************************)
Init ==
  /\ registry = NoRegistry
  /\ functionTable = FunctionTables
  /\ everCleared = FALSE
  /\ marshal = NoMarshal
  /\ server = NoServer
  /\ mEnabled = TRUE
  /\ mStackPointer = 0
  /\ mLoggingProvenance = FALSE
  /\ mDoProvReenterException = TRUE
  /\ mUndoRedoProvenanceDisable = FALSE
  /\ mUndoRedoStack = <<>>
  /\ lastExec = [f \in AllFunctions |-> Defaults(f)]
  /\ i1 = 0
  /\ i2 = 0
  /\ s1 \in {"", "nop"}      \* class A's member / the static of the static tests
  /\ lastOp = [op |-> "none", args |-> <<>>, err |-> "none"]
  /\ invoked = <<>>
  /\ linearity = [phase |-> "calls", snaps |-> <<[i1 |-> i1, i2 |-> i2, s1 |-> s1]>>,
                  k |-> 0]
  /\ roundTrip = [phase |-> "off", before |-> SnapshotOf(State)]
  /\ branchCut = [phase |-> "off", m |-> 0]
  /\ scenario \in {0, -1}

(***************************************************************************)
(* One script call: the program moves to the state r the call leaves.      *)
(***************************************************************************)
Commit(fname, args, r) ==
  /\ mEnabled' = r.mEnabled
  /\ mStackPointer' = r.mStackPointer
  /\ mLoggingProvenance' = r.mLoggingProvenance
  /\ mDoProvReenterException' = r.mDoProvReenterException
  /\ mUndoRedoProvenanceDisable' = r.mUndoRedoProvenanceDisable
  /\ mUndoRedoStack' = r.mUndoRedoStack
  /\ lastExec' = r.lastExec
  /\ i1' = r.i1
  /\ i2' = r.i2
  /\ s1' = r.s1
  /\ lastOp' = [op |-> fname, args |-> args, err |-> r.err]
  /\ invoked' = r.invoked
  /\ linearity' = LinearityNext(fname, r)
  /\ roundTrip' = RoundTripNext(fname, r)
  /\ branchCut' = BranchCutNext(fname, r)
  /\ scenario' = ScenarioNext
  /\ registry' = r.registry
  /\ functionTable' = r.functionTable
  /\ everCleared' = (everCleared \/ fname \in {"provenance.clear", "provenance.enable"})
  /\ UNCHANGED <<marshal, server>>

\* A call that would be recorded needs room below MaxStack.
HasRoom == scenario >= 0 \/ (mEnabled => mStackPointer < MaxStack)

CallFunction ==
  \E fname \in UserFunctions :
  \E args \in ScriptArgs(fname) \cup ScenarioArgs(fname) :
    /\ ScriptAllows(fname, args)
    /\ HasRoom
    /\ Commit(fname, args, exec(State, fname, args))

ProvenanceEnableReentryException ==
  \E args \in ScriptArgs(ReentryExName) :
    /\ ScriptAllows(ReentryExName, args)
    /\ HasRoom
    /\ Commit(ReentryExName, args, exec(State, ReentryExName, args))

ProvenanceUndo ==
  /\ ScriptAllows("provenance.undo", <<>>)
  /\ Commit("provenance.undo", <<>>,
            execProvenance(State, "provenance.undo", <<>>))

ProvenanceRedo ==
  /\ ScriptAllows("provenance.redo", <<>>)
  /\ Commit("provenance.redo", <<>>,
            execProvenance(State, "provenance.redo", <<>>))

ProvenanceClear ==
  /\ ScriptAllows("provenance.clear", <<>>)
  /\ Commit("provenance.clear", <<>>,
            execProvenance(State, "provenance.clear", <<>>))

ProvenanceEnable ==
  \E args \in ScriptArgs("provenance.enable") :
    /\ ScriptAllows("provenance.enable", args)
    /\ Commit("provenance.enable", args,
              execProvenance(State, "provenance.enable", args))

Next ==
  \/ CallFunction
  \/ ProvenanceEnableReentryException
  \/ ProvenanceUndo
  \/ ProvenanceRedo
  \/ ProvenanceClear
  \/ ProvenanceEnable

Spec == Init /\ [][Next]_vars

(***************************************************************************)
(* The same program with the two fixture functions called as well: nested  *)
(* calls of registered functions, and calls and replays that throw.        *)
(***************************************************************************)
\* The fixtures are members of class A, driven by an arbitrary script.
InitFixtures == Init /\ s1 = "" /\ scenario = -1

CallNestedFunction ==
  \E args \in ScriptArgs("set_i2") :
    /\ HasRoom
    /\ Commit("set_i2", args, luaCall(State, "set_i2", args))

CallNestingFunction ==
  \E args \in ScriptArgs(NestingName) :
    /\ mEnabled => mStackPointer + 1 < MaxStack
    /\ Commit(NestingName, args, luaCall(State, NestingName, args))

CallThrowingFunction ==
  \E args \in ScriptArgs(ThrowingName) :
    /\ HasRoom
    /\ Commit(ThrowingName, args, luaCall(State, ThrowingName, args))

NextFixtures ==
  \/ CallNestedFunction
  \/ CallNestingFunction
  \/ CallThrowingFunction
  \/ ProvenanceEnableReentryException
  \/ ProvenanceUndo
  \/ ProvenanceRedo
  \/ ProvenanceClear
  \/ ProvenanceEnable

SpecFixtures == InitFixtures /\ [][NextFixtures]_vars

(***************************************************************************)
(* LuaProvenance::logExecution on its own: the notification is applied to  *)
(* a provenance object in any of its states, among them the ones in which  *)
(* another notification is being logged (mLoggingProvenance) or a record   *)
(* is being replayed (mUndoRedoProvenanceDisable).                         *)
(***************************************************************************)
\* A stack of n records of set_i1, as the calls set_i1(1) .. set_i1(n) leave.
NotifyStack(n) ==
  [k \in 1..n |-> UndoRedoItem("set_i1", <<IntVal(k - 1)>>, <<IntVal(k)>>)]

InitNotify ==
  /\ registry = NoRegistry
  /\ functionTable = FunctionTables
  /\ everCleared = FALSE
  /\ marshal = NoMarshal
  /\ server = NoServer
  /\ mEnabled = TRUE
  /\ mLoggingProvenance \in BOOLEAN
  /\ mDoProvReenterException = TRUE
  /\ mUndoRedoProvenanceDisable \in BOOLEAN
  /\ \E n \in 0..MaxStack :
       /\ mUndoRedoStack = NotifyStack(n)
       /\ mStackPointer \in 0..n
  /\ lastExec = [f \in AllFunctions |->
                   IF f = "set_i1" THEN <<IntVal(mStackPointer)>> ELSE Defaults(f)]
  /\ i1 = mStackPointer
  /\ i2 = 0
  /\ s1 = ""
  /\ lastOp = [op |-> "none", args |-> <<>>, err |-> "none"]
  /\ invoked = <<>>
  /\ linearity = [phase |-> "off", snaps |-> <<[i1 |-> i1, i2 |-> i2, s1 |-> s1]>>,
                  k |-> 0]
  /\ roundTrip = [phase |-> "off", before |-> SnapshotOf(State)]
  /\ branchCut = [phase |-> "off", m |-> 0]
  /\ scenario = -1

\* One call of a member function: the object moves to the state r the call
\* leaves; the observers of script calls stay as they are.
CommitNotify(fname, args, r) ==
  /\ mEnabled' = r.mEnabled
  /\ mStackPointer' = r.mStackPointer
  /\ mLoggingProvenance' = r.mLoggingProvenance
  /\ mDoProvReenterException' = r.mDoProvReenterException
  /\ mUndoRedoProvenanceDisable' = r.mUndoRedoProvenanceDisable
  /\ mUndoRedoStack' = r.mUndoRedoStack
  /\ lastExec' = r.lastExec
  /\ lastOp' = [op |-> fname, args |-> args, err |-> r.err]
  /\ UNCHANGED <<i1, i2, s1, invoked, linearity, roundTrip, branchCut, scenario,
                 registry, functionTable, everCleared, marshal, server>>

\* logExecution(fname, exempt, funParams, emptyParams) is called.
NotifyCall ==
  \E fname \in AllFunctions : \E args \in ScriptArgs(fname) :
    /\ (~mLoggingProvenance /\ ~mUndoRedoProvenanceDisable /\ ~StackExempt(fname))
         => mStackPointer < MaxStack
    /\ CommitNotify(fname, args,
                    logExecution(State, fname, StackExempt(fname), args))

\* enableProvReentryEx(enable) is called and changes the switch.
NotifyReentryEx ==
  \E enable \in BOOLEAN :
    /\ enable # mDoProvReenterException
    /\ CommitNotify("enableProvReentryEx", <<BoolVal(enable)>>,
                    enableProvReentryEx(State, enable))

NextNotify ==
  \/ NotifyCall
  \/ NotifyReentryEx

SpecNotify == InitNotify /\ [][NextNotify]_vars

(***************************************************************************)
(* Marshaling on its own: a value of the Lua stack is read with get, or a  *)
(* native value is written with push and read back with get.               *)
(***************************************************************************)
\* LuaStrictStack<T>::push(L, in)
push(binding, val, vec, reg) ==
  IF binding \in VectorBindings THEN pushVector(binding, vec, reg)
  ELSE pushScalar(binding, val, reg)

\* The values found inside the tables of the model.
TableElems == {LuaNumber(1), LuaString("T"), LuaBoolean(TRUE)}

\* The contents of a table: values at some of the keys 1..MaxKey.
TableContents == UNION {[S -> TableElems] : S \in SUBSET (1..MaxKey)}

\* The values a script can leave on the stack.
StackValues ==
  {Scalar(LuaNil)} \cup {Scalar(LuaBoolean(b)) : b \in BOOLEAN}
    \cup {Scalar(LuaNumber(n)) : n \in {0, 1, 10}}
    \cup {Scalar(LuaString(str)) : str \in {"", "T", "10"}}
    \cup {LuaTableOf(tbl) : tbl \in TableContents}
    \cup {Scalar(LuaInstance(id)) : id \in 1..MaxInstances}
    \cup {Scalar(LuaMarker)}
    \cup {Scalar(LuaUserdata("shared_ptr<T>", p)) : p \in Pointers}
    \cup {Scalar(LuaUserdata("shared_ptr<U>", 1))}

\* The native values of a scalar type.
NativeValues(binding) ==
  CASE binding = "int"        -> {IntVal(0), IntVal(1), IntVal(10)}
    [] binding = "bool"       -> {BoolVal(FALSE), BoolVal(TRUE)}
    [] binding = "string"     -> {StrVal(""), StrVal("T"), StrVal("10")}
    [] binding = "shared_ptr" -> {PtrVal(p) : p \in Pointers}
    [] binding = "LuaClass"   -> {InstVal(id) : id \in {DEFAULT_INSTANCE_ID} \cup 1..MaxInstances}
    [] OTHER                  -> {}

\* The native vectors of a vector type, up to MaxKey elements.
NativeVectors(binding) ==
  IF binding \in VectorBindings
  THEN UNION {[1..n -> NativeValues(ElemBinding(binding))] : n \in 0..MaxKey}
  ELSE {}

\* The registries after k instances were created and some of them deleted.
RegistryStates ==
  {[nextId |-> k + 1,
    status |-> [id \in 1..MaxInstances |-> IF id <= k THEN st[id] ELSE "unissued"],
    bound  |-> [id \in 1..MaxInstances |-> IF id <= k THEN id ELSE 0],
    returned |-> [id \in 1..k |-> id],
    resolved |-> 0] :
   k \in 0..MaxInstances, st \in [1..MaxInstances -> {"live", "retired"}]}

InitMarshal ==
  /\ registry \in RegistryStates
  /\ functionTable = FunctionTables
  /\ everCleared = FALSE
  /\ server = NoServer
  /\ mEnabled = TRUE
  /\ mStackPointer = 0
  /\ mLoggingProvenance = FALSE
  /\ mDoProvReenterException = TRUE
  /\ mUndoRedoProvenanceDisable = FALSE
  /\ mUndoRedoStack = <<>>
  /\ lastExec = [f \in AllFunctions |-> Defaults(f)]
  /\ i1 = 0
  /\ i2 = 0
  /\ s1 = ""
  /\ lastOp = [op |-> "none", args |-> <<>>, err |-> "none"]
  /\ invoked = <<>>
  /\ linearity = [phase |-> "off", snaps |-> <<[i1 |-> i1, i2 |-> i2, s1 |-> s1]>>,
                  k |-> 0]
  /\ roundTrip = [phase |-> "off", before |-> SnapshotOf(State)]
  /\ branchCut = [phase |-> "off", m |-> 0]
  /\ scenario = -1
  /\ \E binding \in Bindings :
       \/ \E v \in StackValues :
            marshal = [NoMarshal EXCEPT !.binding = binding, !.dir = "lua", !.lua = v]
       \/ \E val \in NativeValues(binding) :
            marshal = [NoMarshal EXCEPT !.binding = binding, !.dir = "native",
                                        !.srcVal = val]
       \/ \E vec \in NativeVectors(binding) :
            marshal = [NoMarshal EXCEPT !.binding = binding, !.dir = "native",
                                        !.srcVec = vec]

\* get reads the value on the stack: the one the script left there, or the
\* one push wrote.
MarshalGet ==
  /\ \/ marshal.op = "none" /\ marshal.dir = "lua"
     \/ marshal.op = "push"
  /\ \E ub \in UndefinedReads :
       LET r == get(marshal.binding, marshal.lua, 1, ub) IN
       marshal' = [marshal EXCEPT !.op = IF @ = "push" THEN "roundtrip" ELSE "get",
                                  !.err = r.err, !.val = r.val, !.vec = r.vec]
  /\ UNCHANGED <<progVars, lastOp, invoked, linearity, roundTrip, branchCut,
                 scenario, registry, functionTable, everCleared, server>>

\* push writes the native value to the stack.
MarshalPush ==
  /\ marshal.op = "none"
  /\ marshal.dir = "native"
  /\ marshal' = [marshal EXCEPT !.op = "push",
                                !.lua = push(marshal.binding, marshal.srcVal,
                                             marshal.srcVec, registry)]
  /\ UNCHANGED <<progVars, lastOp, invoked, linearity, roundTrip, branchCut,
                 scenario, registry, functionTable, everCleared, server>>

NextMarshal ==
  \/ MarshalGet
  \/ MarshalPush

SpecMarshal == InitMarshal /\ [][NextMarshal]_vars

(***************************************************************************)
(* Script calls with the arguments as the script wrote them: the wrapper   *)
(* of a registered function converts them with get, one type binding per   *)
(* parameter, before it calls the function.                                *)
(***************************************************************************)
\* The argument values a script passes.
RawValues == {LuaNumber(1), LuaString("T"), LuaString("10"), LuaBoolean(TRUE)}

\* The argument lists of a script call: none, one or two arguments.
RawArgs == UNION {[1..n -> RawValues] : n \in 0..2}

\* invoke(name, rawArgs): the arguments are counted, then converted
\* positionally, then the function is called.
invoke(s, fname, rawArgs) ==
  IF Len(rawArgs) # Len(Signature(fname)) THEN Throw(s, "ArityError")
  ELSE LET got == [k \in 1..Len(rawArgs) |->
                     get(Signature(fname)[k], Scalar(rawArgs[k]), k,
                         GetFails("SIGSEGV"))]
       IN IF \E k \in 1..Len(rawArgs) : got[k].err # "none"
          THEN Throw(s, "MarshalTypeError")
          ELSE luaCall(s, fname, [k \in 1..Len(rawArgs) |-> got[k].val])

InitInvoke == Init /\ s1 = "" /\ scenario = -1

InvokeFunction ==
  \E fname \in UserFunctions, rawArgs \in RawArgs :
    /\ HasRoom
    /\ Commit(fname, rawArgs, invoke(State, fname, rawArgs))

NextInvoke ==
  \/ InvokeFunction
  \/ ProvenanceUndo
  \/ ProvenanceRedo

SpecInvoke == InitInvoke /\ [][NextInvoke]_vars

(***************************************************************************)
(* Class instances: native objects are registered, looked up and deleted   *)
(* by the script, and the deletions are undone and redone.                 *)
(***************************************************************************)
InitInstances == Init /\ s1 = "" /\ scenario = -1

\* A native object is exposed to the script for the first time.
RegisterInstance ==
  \E nativeRef \in Pointers :
    /\ registry.nextId <= MaxInstances
    /\ registry' = register(registry, nativeRef)
    /\ lastOp' = [op |-> "register", args |-> <<PtrVal(nativeRef)>>, err |-> "none"]
    /\ UNCHANGED <<progVars, invoked, linearity, roundTrip, branchCut, scenario,
                   functionTable, everCleared, marshal, server>>

\* A handle is resolved: one that was issued, the sentinel, or one that
\* never was issued.
ResolveHandle ==
  \E id \in DEFAULT_INSTANCE_ID..(MaxInstances + 1) :
    LET r == resolve(registry, id) IN
    /\ registry' = [registry EXCEPT !.resolved = r.ref]
    /\ lastOp' = [op |-> "resolve", args |-> <<InstVal(id)>>, err |-> r.err]
    /\ UNCHANGED <<progVars, invoked, linearity, roundTrip, branchCut, scenario,
                   functionTable, everCleared, marshal, server>>

\* The script calls deleteClass on the instance it knows by the id: the
\* argument is the instance table, or nil once the instance is gone.
DeleteClass ==
  \E id \in 1..MaxInstances :
    LET raw == IF isLive(registry, id) THEN LuaInstance(id) ELSE LuaNil IN
    /\ id < registry.nextId
    /\ HasRoom
    /\ Commit(DeleteName, <<InstVal(id)>>, invoke(State, DeleteName, <<raw>>))

NextInstances ==
  \/ RegisterInstance
  \/ ResolveHandle
  \/ DeleteClass
  \/ ProvenanceUndo
  \/ ProvenanceRedo

SpecInstances == InitInstances /\ [][NextInstances]_vars

(***************************************************************************)
(* Functions that are unregistered while their records are in the ledger.  *)
(***************************************************************************)
InitUnregister == Init /\ s1 = "" /\ scenario = -1

\* The script calls a function that still has its function table.
CallRegistered ==
  \E fname \in UserFunctions :
  \E args \in ScriptArgs(fname) :
    /\ functionTable[fname] = "callable"
    /\ HasRoom
    /\ Commit(fname, args, exec(State, fname, args))

\* A function is unregistered: its function table is removed, or is left
\* without a call entry.
UnregisterFunction ==
  \E fname \in UserFunctions :
  \E kind \in TableKinds \ {"callable"} :
    /\ functionTable[fname] = "callable"
    /\ functionTable' = [functionTable EXCEPT ![fname] = kind]
    /\ lastOp' = [op |-> "unregister", args |-> <<StrVal(fname)>>, err |-> "none"]
    /\ invoked' = <<>>
    /\ UNCHANGED <<progVars, linearity, roundTrip, branchCut, scenario,
                   registry, everCleared, marshal, server>>

NextUnregister ==
  \/ CallRegistered
  \/ UnregisterFunction
  \/ ProvenanceUndo
  \/ ProvenanceRedo

SpecUnregister == InitUnregister /\ [][NextUnregister]_vars

(***************************************************************************)
(* The ledger under setters and instance deletions together, with the      *)
(* history cleared now and then.                                           *)
(***************************************************************************)
InitLedger == Init /\ s1 = "" /\ scenario = -1

\* A class instance is created; which native object it wraps makes no
\* difference to the ledger.
CreateInstance ==
  /\ registry.nextId <= MaxInstances
  /\ registry' = register(registry, 1)
  /\ lastOp' = [op |-> "register", args |-> <<PtrVal(1)>>, err |-> "none"]
  /\ UNCHANGED <<progVars, invoked, linearity, roundTrip, branchCut, scenario,
                 functionTable, everCleared, marshal, server>>

\* The script calls set_i1.
CallSetter ==
  \E args \in ScriptArgs("set_i1") :
    /\ HasRoom
    /\ Commit("set_i1", args, exec(State, "set_i1", args))

NextLedger ==
  \/ CallSetter
  \/ CreateInstance
  \/ DeleteClass
  \/ ProvenanceUndo
  \/ ProvenanceRedo
  \/ ProvenanceClear

SpecLedger == InitLedger /\ [][NextLedger]_vars

(***************************************************************************)
(* TvkServer: a client connects and sends a stream of bytes; the server    *)
(* accepts the connection, checks the magic and processes commands.        *)
(***************************************************************************)
MaxBytes == 5

\* The bytes a client sends: the four of the magic and one other.
Bytes == {"I", "V", "3", "D", "X"}

\* The streams of up to n bytes.
RECURSIVE Streams(_)
Streams(n) ==
  IF n = 0 THEN {<<>>}
  ELSE Streams(n - 1) \cup
       {Append(st, b) : st \in {t \in Streams(n - 1) : Len(t) = n - 1}, b \in Bytes}

\* readFromSocket(socket, buf, 4): the number of bytes it read, or -1; it
\* reads no more than the client sent.
ReadCounts(stream) ==
  {-1} \cup (0..(IF Len(stream) < 4 THEN Len(stream) ELSE 4))

\* Faulty variant: only the first byte of the magic is compared.
magicCheck_FirstByte(byteCount, buf) ==
  IF byteCount < 4 THEN FALSE
  ELSE IF buf[1] # "I" THEN FALSE
  ELSE TRUE

\* TvkServer::magicCheck, given what readFromSocket returned and left in buf
magicCheck(byteCount, buf) ==
  IF byteCount < 4 THEN FALSE
  ELSE IF buf[1] # "I" \/ buf[2] # "V" \/ buf[3] # "3" \/ buf[4] # "D" THEN FALSE
  ELSE TRUE

\* TvkServer::checkEndianness, which leaves the connection open.
checkEndianness(srv) == [srv EXCEPT !.endianChecked = TRUE]

\* The first n elements of a sequence, and what follows them.
Prefix(seq, n) == [k \in 1..n |-> seq[k]]

Suffix(seq, n) == [k \in 1..(Len(seq) - n) |-> seq[k + n]]

\* The variables of the scripting bridge, which the server does not touch.
bridgeVars ==
  <<progVars, lastOp, invoked, linearity, roundTrip, branchCut, scenario,
    registry, functionTable, everCleared, marshal>>

InitServer ==
  /\ registry = NoRegistry
  /\ functionTable = FunctionTables
  /\ everCleared = FALSE
  /\ marshal = NoMarshal
  /\ mEnabled = TRUE
  /\ mStackPointer = 0
  /\ mLoggingProvenance = FALSE
  /\ mDoProvReenterException = TRUE
  /\ mUndoRedoProvenanceDisable = FALSE
  /\ mUndoRedoStack = <<>>
  /\ lastExec = [f \in AllFunctions |-> Defaults(f)]
  /\ i1 = 0
  /\ i2 = 0
  /\ s1 = ""
  /\ lastOp = [op |-> "none", args |-> <<>>, err |-> "none"]
  /\ invoked = <<>>
  /\ linearity = [phase |-> "off", snaps |-> <<[i1 |-> i1, i2 |-> i2, s1 |-> s1]>>,
                  k |-> 0]
  /\ roundTrip = [phase |-> "off", before |-> SnapshotOf(State)]
  /\ branchCut = [phase |-> "off", m |-> 0]
  /\ scenario = -1
  /\ \E stream \in Streams(MaxBytes) : server = [NoServer EXCEPT !.stream = stream]

\* TvkServer::waitAndAccept: accept, magicCheck, then close and exit, or
\* checkEndianness and return the connection.
WaitAndAccept ==
  /\ server.pc = "listening"
  /\ \E accepted \in BOOLEAN :
       IF ~accepted
       THEN \* accept() < 0
            server' = [server EXCEPT !.pc = "exited"]
       ELSE \E byteCount \in ReadCounts(server.stream) :
              LET n    == IF byteCount < 0 THEN 0 ELSE byteCount
                  buf  == Prefix(server.stream, n)
                  read == [server EXCEPT !.conn_s = "open", !.byteCount = byteCount,
                                         !.buf = buf,
                                         !.stream = Suffix(server.stream, n)]
              IN  IF ~magicCheck(byteCount, buf)
                  THEN server' = [read EXCEPT !.conn_s = "closed", !.pc = "exited"]
                  ELSE server' = [checkEndianness(read) EXCEPT !.returned = TRUE,
                                                               !.pc = "connected"]
  /\ UNCHANGED bridgeVars

\* TvkServer::processNextCommand: one command byte is read from the
\* connection waitAndAccept returned; without a byte there is no command.
ProcessNextCommand ==
  /\ server.pc = "connected"
  /\ server' = IF Len(server.stream) = 0
               THEN [server EXCEPT !.command = "NULL"]
               ELSE [server EXCEPT !.stream = Tail(@), !.command = "created",
                                   !.commands = @ + 1]
  /\ UNCHANGED bridgeVars

\* TvkServer::disconnect: the connected socket is closed.
Disconnect ==
  /\ server.pc = "connected"
  /\ \E closed \in BOOLEAN :
       server' = IF closed
                 THEN [server EXCEPT !.conn_s = "closed", !.pc = "disconnected"]
                 ELSE [server EXCEPT !.pc = "exited"]
  /\ UNCHANGED bridgeVars

NextServer ==
  \/ WaitAndAccept
  \/ ProcessNextCommand
  \/ Disconnect

SpecServer == InitServer /\ [][NextServer]_vars

(***************************************************************************)
(* Properties                                                              *)
(***************************************************************************)
\* The ledger is Idle: neither logging nor replaying.
Idle == ~mLoggingProvenance /\ ~mUndoRedoProvenanceDisable

\* The step is the script call fname (every call sets lastOp).
IsCall(fname) == lastOp'.op = fname

\* C1: in every reachable state the stack pointer lies between 0 and the
\* length of the undo/redo stack, whatever calls, undos, redos, clears and
\* enable/disable operations (failed ones included) came before.
C1_CursorInRange ==
  /\ 0 <= mStackPointer
  /\ mStackPointer <= Len(mUndoRedoStack)

\* C1 witness: a failed call has left the pointer at an end of a ledger
\* that holds records.
C1_Witness ==
  /\ lastOp.err # "none"
  /\ Len(mUndoRedoStack) > 1
  /\ mStackPointer \in {0, Len(mUndoRedoStack)}

\* C2: a successful non-exempt call notified in Idle state with the pointer
\* at c keeps the first c records, puts the record of the call at index c,
\* and leaves length and pointer at c + 1.
C2_TruncateThenAppend ==
  [][ (/\ \E f \in LoggedFunctions : IsCall(f)
       /\ lastOp'.err = "none"
       /\ mEnabled /\ Idle)
      => LET c == mStackPointer
         IN  /\ c <= Len(mUndoRedoStack)
             /\ Len(mUndoRedoStack') = c + 1
             /\ mStackPointer' = c + 1
             /\ SubSeq(mUndoRedoStack', 1, c) = SubSeq(mUndoRedoStack, 1, c)
             /\ mUndoRedoStack'[c + 1].function = lastOp'.op
             /\ mUndoRedoStack'[c + 1].redoParams = lastOp'.args ]_vars

\* C2 witness: a call made below the top of the stack has discarded the
\* records above the pointer.
C2_Witness ==
  /\ branchCut.phase = "cut"
  /\ mStackPointer = Len(mUndoRedoStack)
  /\ mUndoRedoStack[mStackPointer].function = lastOp.op

\* C3 (P3): after M >= 1 successful undos and one new non-exempt call, the
\* next redo fails with LuaProvenanceInvalidRedo.
C3_BranchTruncation ==
  branchCut.phase = "redo" => lastOp.err = "LuaProvenanceInvalidRedo"

\* C3 witness: the redo was tried after two undos and a new call.
C3_Witness == branchCut.phase = "redo" /\ branchCut.m = 2

\* C4: provenance.undo with the stack pointer at 0 fails with
\* LuaProvenanceInvalidUndo, executes no registered function, and leaves the
\* pointer, the records, the last exec tables and the native values as
\* they were.
C4_UndoAtBottomFails ==
  [][ (IsCall("provenance.undo") /\ mStackPointer = 0)
      => /\ lastOp'.err = "LuaProvenanceInvalidUndo"
         /\ invoked' = <<>>
         /\ UNCHANGED progVars ]_vars

\* C4 witness: an undo has failed at the bottom of a ledger whose records
\* were all undone.
C4_Witness ==
  /\ lastOp.op = "provenance.undo"
  /\ lastOp.err = "LuaProvenanceInvalidUndo"
  /\ mStackPointer = 0
  /\ Len(mUndoRedoStack) > 0

\* C5: provenance.redo with the stack pointer at the top of the stack fails
\* with LuaProvenanceInvalidRedo, executes no registered function, and
\* leaves the pointer, the records, the last exec tables and the native
\* values as they were.
C5_RedoAtTopFails ==
  [][ (IsCall("provenance.redo") /\ mStackPointer = Len(mUndoRedoStack))
      => /\ lastOp'.err = "LuaProvenanceInvalidRedo"
         /\ invoked' = <<>>
         /\ UNCHANGED progVars ]_vars

\* C5 witness: a redo has failed at the top of a ledger that holds records.
C5_Witness ==
  /\ lastOp.op = "provenance.redo"
  /\ lastOp.err = "LuaProvenanceInvalidRedo"
  /\ mStackPointer = Len(mUndoRedoStack)
  /\ Len(mUndoRedoStack) > 0

\* C6: a successful undo with the pointer at c > 0 executes exactly the
\* function of record c - 1 with that record's undo parameters, and moves
\* the pointer to c - 1.
C6_UndoReplaysUndoParams ==
  [][ (IsCall("provenance.undo") /\ lastOp'.err = "none")
      => /\ mStackPointer > 0
         /\ mStackPointer <= Len(mUndoRedoStack)
         /\ invoked' =
              << [function |-> mUndoRedoStack[mStackPointer].function,
                  params   |-> mUndoRedoStack[mStackPointer].undoParams] >>
         /\ mStackPointer' = mStackPointer - 1 ]_vars

\* C6 witness: an undo has replayed a record whose undo parameters are not
\* the defaults and differ from its redo parameters.
C6_Witness ==
  /\ lastOp.op = "provenance.undo"
  /\ lastOp.err = "none"
  /\ Len(invoked) = 1
  /\ LET item == mUndoRedoStack[mStackPointer + 1]
     IN  /\ item.undoParams # item.redoParams
         /\ item.undoParams # Defaults(item.function)
         /\ invoked[1].params = item.undoParams

\* C7: a successful redo with the pointer at c < length executes exactly the
\* function of record c with that record's redo parameters, and moves the
\* pointer to c + 1.
C7_RedoReplaysRedoParams ==
  [][ (IsCall("provenance.redo") /\ lastOp'.err = "none")
      => /\ mStackPointer >= 0
         /\ mStackPointer < Len(mUndoRedoStack)
         /\ invoked' =
              << [function |-> mUndoRedoStack[mStackPointer + 1].function,
                  params   |-> mUndoRedoStack[mStackPointer + 1].redoParams] >>
         /\ mStackPointer' = mStackPointer + 1 ]_vars

\* C7 witness: a redo has replayed a record whose redo parameters differ
\* from its undo parameters, below the top of the stack.
C7_Witness ==
  /\ lastOp.op = "provenance.redo"
  /\ lastOp.err = "none"
  /\ Len(invoked) = 1
  /\ mStackPointer < Len(mUndoRedoStack)
  /\ LET item == mUndoRedoStack[mStackPointer]
     IN  /\ item.undoParams # item.redoParams
         /\ invoked[1].params = item.redoParams

\* C8 (P1): after N non-exempt calls on a fresh bridge followed by K <= N
\* undos, the native values are those that followed the first N - K calls.
C8_HistoryLinearity ==
  linearity.phase # "off"
    => NativeOf(State) = linearity.snaps[Len(linearity.snaps) - linearity.k]

\* C9 (P2): a successful undo immediately followed by a redo succeeds and
\* restores the native values, the reentry switch, the stack pointer and
\* every last exec table to what they were before the undo.
C9_RedoRoundTrip ==
  roundTrip.phase = "redone"
    => /\ lastOp.err = "none"
       /\ SnapshotOf(State) = roundTrip.before

\* C9 witness: the undo and the redo went through a record that changed a
\* native value, below the top of the stack.
C9_Witness ==
  /\ roundTrip.phase = "redone"
  /\ mStackPointer < Len(mUndoRedoStack)
  /\ mUndoRedoStack[mStackPointer].undoParams
       # mUndoRedoStack[mStackPointer].redoParams

\* C10: the end-to-end script.  After set_i1(1), set_i1(2), set_i2(10):
\* i1 = 2, i2 = 10, pointer 3; undo: i2 = 0, pointer 2; undo: i1 = 1,
\* pointer 1; redo: i1 = 2, pointer 2; set_i1(42) discards the redo record;
\* the next redo fails with LuaProvenanceInvalidRedo; finally i1 = 42, i2 = 0.
C10_EndToEnd ==
  /\ scenario = 3 => (i1 = 2 /\ i2 = 10 /\ mStackPointer = 3)
  /\ scenario = 4 => (i2 = 0 /\ mStackPointer = 2 /\ lastOp.err = "none")
  /\ scenario = 5 => (i1 = 1 /\ mStackPointer = 1 /\ lastOp.err = "none")
  /\ scenario = 6 => (i1 = 2 /\ mStackPointer = 2 /\ lastOp.err = "none")
  /\ scenario = 7 => /\ i1 = 42
                     /\ mStackPointer = 3
                     /\ Len(mUndoRedoStack) = 3
                     /\ \A k \in 1..3 : mUndoRedoStack[k].function = "set_i1"
  /\ scenario = 8 => /\ lastOp.err = "LuaProvenanceInvalidRedo"
                     /\ i1 = 42
                     /\ i2 = 0

\* C10 witness: the script has run to its last line.
C10_Witness == scenario = Len(ScenarioScript) /\ lastOp.op = "provenance.redo"

\* C11: the record a successful non-exempt call to f creates holds, as undo
\* parameters, f's last exec table as it was immediately before the call,
\* and, as redo parameters, the parameters the call was made with.
C11_RecordParams ==
  [][ (/\ \E f \in LoggedFunctions : IsCall(f)
       /\ lastOp'.err = "none"
       /\ mEnabled /\ Idle)
      => /\ mStackPointer' = mStackPointer + 1
         /\ LET item == mUndoRedoStack'[mStackPointer']
            IN  /\ item.function = lastOp'.op
                /\ item.undoParams = lastExec[lastOp'.op]
                /\ item.redoParams = lastOp'.args ]_vars

\* C11 witness: a call has created a record whose undo parameters are the
\* parameters of an earlier call, not the defaults, and differ from its
\* redo parameters.
C11_Witness ==
  /\ lastOp.op \in LoggedFunctions
  /\ lastOp.err = "none"
  /\ mEnabled
  /\ mStackPointer = Len(mUndoRedoStack)
  /\ mStackPointer > 0
  /\ LET item == mUndoRedoStack[mStackPointer]
     IN  /\ item.function = lastOp.op
         /\ item.redoParams = lastOp.args
         /\ item.undoParams # Defaults(item.function)
         /\ item.undoParams # item.redoParams

\* C12: after every successful invocation of a registered function f, made
\* directly by the script or by an undo or a redo, exempt or not, the last
\* exec table of f holds the parameters of that most recent invocation.
C12_LastExecTracksCalls ==
  (lastOp.op # "none" /\ lastOp.err = "none")
    => /\ lastExec[lastOp.op] = lastOp.args
       /\ \A k \in 1..Len(invoked) :
            (\A j \in (k + 1)..Len(invoked) :
               invoked[j].function # invoked[k].function)
              => lastExec[invoked[k].function] = invoked[k].params

\* C13: notifying the ledger of a call to a function whose stack exemption
\* is set appends no record, removes none and leaves the stack pointer
\* where it is, whatever the pointer and the records are: in every state
\* for every function and parameters, and in particular in the call of
\* provenance.enable(true) on an enabled system, whose body changes nothing.
C13_ExemptNotifyKeepsLedger ==
  [][ /\ \A fname \in AllFunctions : \A args \in ScriptArgs(fname) :
           LET r == logExecution(State, fname, TRUE, args)
           IN  /\ r.mUndoRedoStack = mUndoRedoStack
               /\ r.mStackPointer = mStackPointer
               /\ r.lastExec = lastExec
      /\ (/\ IsCall("provenance.enable")
          /\ lastOp'.args = <<BoolVal(TRUE)>>
          /\ mEnabled)
         => /\ lastOp'.err = "none"
            /\ UNCHANGED <<mUndoRedoStack, mStackPointer>> ]_vars

\* C13 witness: the exempt call was notified with records on both sides of
\* the stack pointer, which are still there.
C13_Witness ==
  /\ lastOp.op = "provenance.enable"
  /\ lastOp.args = <<BoolVal(TRUE)>>
  /\ lastOp.err = "none"
  /\ mEnabled
  /\ 0 < mStackPointer
  /\ mStackPointer < Len(mUndoRedoStack)

\* C14, as claimed: all five functions of the provenance table (undo, redo,
\* enable, clear, enableReentryException) are stack exempt, so no record of
\* the undo/redo stack ever belongs to one of them.
C14_AllFiveExempt ==
  \A k \in 1..Len(mUndoRedoStack) :
    mUndoRedoStack[k].function \notin ExemptFunctions \cup {ReentryExName}

\* C14, as the code has it: provenance.undo, provenance.redo,
\* provenance.enable and provenance.clear are stack exempt and never
\* recorded; provenance.enableReentryException is not, and a successful
\* call of it on an enabled system is recorded like any other call: the
\* records above the stack pointer are discarded and its record is the top
\* of the stack.
C14_FourExemptReentryLogged ==
  /\ \A k \in 1..Len(mUndoRedoStack) :
       mUndoRedoStack[k].function \notin ExemptFunctions
  /\ (lastOp.op = ReentryExName /\ lastOp.err = "none" /\ mEnabled)
       => /\ mStackPointer > 0
          /\ mStackPointer = Len(mUndoRedoStack)
          /\ mUndoRedoStack[mStackPointer].function = ReentryExName
          /\ mUndoRedoStack[mStackPointer].redoParams = lastOp.args

\* C14 witness: a call of provenance.enableReentryException made after an
\* undo has discarded the redo record and is the top record of the stack.
C14_Witness ==
  /\ lastOp.op = ReentryExName
  /\ lastOp.err = "none"
  /\ mEnabled
  /\ branchCut.phase = "cut"
  /\ mStackPointer = Len(mUndoRedoStack)
  /\ mUndoRedoStack[mStackPointer].function = ReentryExName

\* C15: provenance.clear, called in any state, succeeds and leaves an empty
\* undo/redo stack with the stack pointer at 0; the system is then neither
\* undoable nor redoable: a provenance.undo issued immediately after fails
\* with LuaProvenanceInvalidUndo and a provenance.redo with
\* LuaProvenanceInvalidRedo.
C15_ClearEmptiesLedger ==
  [][ /\ IsCall("provenance.clear")
         => /\ lastOp'.err = "none"
            /\ mUndoRedoStack' = <<>>
            /\ mStackPointer' = 0
            /\ execProvenance(State', "provenance.undo", <<>>).err
                 = "LuaProvenanceInvalidUndo"
            /\ execProvenance(State', "provenance.redo", <<>>).err
                 = "LuaProvenanceInvalidRedo"
      /\ (lastOp.op = "provenance.clear" /\ IsCall("provenance.undo"))
         => lastOp'.err = "LuaProvenanceInvalidUndo"
      /\ (lastOp.op = "provenance.clear" /\ IsCall("provenance.redo"))
         => lastOp'.err = "LuaProvenanceInvalidRedo" ]_vars

\* C15 witness: the clear was called on an enabled system with the stack
\* pointer above 0 (roundTrip.before is the state the call started from).
C15_Witness ==
  /\ lastOp.op = "provenance.clear"
  /\ lastOp.err = "none"
  /\ mEnabled
  /\ roundTrip.before.cursor > 0
  /\ mUndoRedoStack = <<>>

\* C16: provenance.enable(false) on an enabled system clears the provenance
\* history (empty stack, pointer 0) and then disables; provenance.enable(b)
\* in every other case (enabling, or disabling what is already disabled)
\* changes the enabled flag only.
C16_SetEnabled ==
  [][ IsCall("provenance.enable")
      => LET enabled == lastOp'.args[1].b
         IN  /\ lastOp'.err = "none"
             /\ mEnabled' = enabled
             /\ IF enabled = FALSE /\ mEnabled = TRUE
                THEN mUndoRedoStack' = <<>> /\ mStackPointer' = 0
                ELSE UNCHANGED <<mUndoRedoStack, mStackPointer>>
             /\ UNCHANGED <<mLoggingProvenance, mDoProvReenterException,
                            mUndoRedoProvenanceDisable, lastExec, i1, i2, s1>>
    ]_vars

\* C16 witness: provenance.enable(false) was called on an enabled system
\* with the stack pointer above 0 (roundTrip.before is the state the call
\* started from) and has left it disabled with an empty stack.
C16_Witness ==
  /\ lastOp.op = "provenance.enable"
  /\ lastOp.args = <<BoolVal(FALSE)>>
  /\ lastOp.err = "none"
  /\ roundTrip.before.cursor > 0
  /\ ~mEnabled
  /\ mUndoRedoStack = <<>>

\* C17: once provenance is disabled, no step made before it is enabled again
\* leaves a record: calls made while disabled create none, so the
\* provenance.enable(true) that ends the disabled period finds and leaves an
\* empty stack with the pointer at 0.
C17_ReenableStartsEmpty ==
  [][ ~mEnabled => (mUndoRedoStack' = <<>> /\ mStackPointer' = 0) ]_vars

\* C17 witness: provenance has just been enabled again with an empty stack,
\* after a set_i1 call made while it was disabled (the native value is not
\* the one of the last exec table, which only recorded calls rewrite).
C17_Witness ==
  /\ lastOp.op = "provenance.enable"
  /\ lastOp.args = <<BoolVal(TRUE)>>
  /\ lastOp.err = "none"
  /\ mEnabled
  /\ mUndoRedoStack = <<>>
  /\ mStackPointer = 0
  /\ i1 # lastExec["set_i1"][1].n

\* C19 (P5): when the native body of the registered non-exempt function
\* call_set_i2 calls the registered function set_i2 (provenance enabled,
\* ledger Idle before the call), the call fails with LuaProvenanceReenter if
\* the reentry exception is on; if it is off, the call succeeds and the
\* nested call leaves no record: the only record added is the one of
\* call_set_i2 itself.
C19_NestedCallGuarded ==
  (lastOp.op = NestingName /\ mEnabled /\ Idle)
    => IF mDoProvReenterException
       THEN lastOp.err = "LuaProvenanceReenter"
       ELSE /\ lastOp.err = "none"
            /\ mStackPointer = roundTrip.before.cursor + 1
            /\ mUndoRedoStack[mStackPointer].function = NestingName

\* C20: every exception thrown while provenance.undo replays a record
\* reaches the caller as LuaProvenanceInvalidUndo, and every exception
\* thrown while provenance.redo replays one as LuaProvenanceInvalidRedo.
C20_ReplayFailuresWrapped ==
  /\ (lastOp.op = "provenance.undo" /\ lastOp.err # "none")
       => lastOp.err = "LuaProvenanceInvalidUndo"
  /\ (lastOp.op = "provenance.redo" /\ lastOp.err # "none")
       => lastOp.err = "LuaProvenanceInvalidRedo"

\* C18: a notification that arrives while another one is being logged
\* leaves the records, the stack pointer and the last exec tables as they
\* are, whatever the function is: with the reentry exception on it fails
\* with LuaProvenanceReenter, with it off it returns without an error and
\* without a record.
C18_ReentryLeavesLedger ==
  [][ (mLoggingProvenance /\ lastOp'.op \in AllFunctions)
      => /\ UNCHANGED <<mUndoRedoStack, mStackPointer, lastExec>>
         /\ lastOp'.err = IF mDoProvReenterException
                          THEN "LuaProvenanceReenter"
                          ELSE "none" ]_vars

\* C18 witness: with the reentry exception switched off, a notification of
\* a non-exempt function has returned silently while another one was being
\* logged, with records on both sides of the stack pointer.
C18_Witness ==
  /\ lastOp.op \in LoggedFunctions
  /\ lastOp.err = "none"
  /\ mLoggingProvenance
  /\ ~mDoProvReenterException
  /\ ~mUndoRedoProvenanceDisable
  /\ 0 < mStackPointer
  /\ mStackPointer < Len(mUndoRedoStack)

\* C22: reading a sequence from a table returns exactly the values at the
\* keys 1..k, where k+1 is the smallest positive integer key the table
\* lacks; the keys past that gap are ignored and the gap is no error.
C22_SequenceStopsAtGap ==
  (marshal.op = "get" /\ marshal.binding \in VectorBindings
     /\ marshal.lua.lt = "table") =>
    LET tbl == marshal.lua.tbl
        k == CHOOSE j \in 0..(MaxKey + 1) :
               (1..j) \subseteq DOMAIN tbl /\ (j + 1) \notin DOMAIN tbl
        elem(i) == getScalar(ElemBinding(marshal.binding), Scalar(tbl[i]), -1,
                             GetFails("SIGSEGV"))
    IN (\A i \in 1..k : elem(i).err = "none") =>
         /\ marshal.err = "none"
         /\ Len(marshal.vec) = k
         /\ \A i \in 1..k : marshal.vec[i] = elem(i).val

\* A table with the keys 1 and 3 was read as a vector of one element.
C22_Witness ==
  /\ marshal.op = "get"
  /\ marshal.binding = "vector<int>"
  /\ marshal.lua.lt = "table"
  /\ DOMAIN marshal.lua.tbl = {1, 3}
  /\ marshal.err = "none"
  /\ marshal.vec = <<IntVal(1)>>

C24_WrongTypeRejected ==
  LET expected == CASE marshal.binding = "int"        -> "number"
                    [] marshal.binding = "bool"       -> "boolean"
                    [] marshal.binding = "string"     -> "string"
                    [] marshal.binding = "shared_ptr" -> "userdata"
                    [] OTHER                          -> "table"
      wrong == \/ marshal.lua.lt # expected
               \/ marshal.binding = "shared_ptr" /\ marshal.lua.ud # "shared_ptr<T>"
  IN (marshal.op = "get" /\ wrong
        /\ ~(marshal.binding = "LuaClass" /\ marshal.lua.lt = "nil")) =>
       marshal.err # "none"

\* C25: reading an object handle from nil does not fail and returns the
\* "no instance" handle; reading the table of an instance returns the
\* global id of that instance.
C25_HandleFromNil ==
  (marshal.op = "get" /\ marshal.binding = "LuaClass") =>
    /\ marshal.lua.lt = "nil" =>
         (marshal.err = "none" /\ marshal.val = InstVal(DEFAULT_INSTANCE_ID))
    /\ (marshal.lua.lt = "table" /\ marshal.lua.meta /\ ~marshal.lua.marker) =>
         (marshal.err = "none" /\ marshal.val = InstVal(marshal.lua.gid))

\* nil was read as an object handle.
C25_Witness ==
  /\ marshal.op = "get"
  /\ marshal.binding = "LuaClass"
  /\ marshal.lua.lt = "nil"
  /\ marshal.val = InstVal(DEFAULT_INSTANCE_ID)

\* C26: push of the "no instance" handle writes the marker table, not the
\* table of an instance, and get on what it wrote returns the "no
\* instance" handle again.
C26_SentinelRoundTrip ==
  (marshal.binding = "LuaClass" /\ marshal.op \in {"push", "roundtrip"}
     /\ marshal.srcVal = InstVal(DEFAULT_INSTANCE_ID)) =>
    /\ marshal.lua.lt = "table" /\ marshal.lua.marker /\ ~marshal.lua.meta
    /\ marshal.op = "roundtrip" =>
         (marshal.err = "none" /\ marshal.val = InstVal(DEFAULT_INSTANCE_ID))

\* The "no instance" handle was written and read back.
C26_Witness ==
  /\ marshal.binding = "LuaClass"
  /\ marshal.op = "roundtrip"
  /\ marshal.srcVal = InstVal(DEFAULT_INSTANCE_ID)
  /\ marshal.lua.marker
  /\ marshal.val = InstVal(DEFAULT_INSTANCE_ID)


\* C21: a script call with the wrong number of arguments or with an
\* argument of the wrong type fails with ArityError or MarshalTypeError and
\* changes nothing: the native variables, the last-executed parameters, the
\* ledger and the cursor are as before.
C21_MalformedCallRejected ==
  [][ LET fname == lastOp'.op
          rawArgs == lastOp'.args
          expected(k) == IF Signature(fname)[k] = "int" THEN "number" ELSE "string"
          malformed == \/ Len(rawArgs) # Len(Signature(fname))
                       \/ \E k \in 1..Len(rawArgs) : rawArgs[k].lt # expected(k)
      IN (fname \in UserFunctions /\ malformed) =>
           /\ lastOp'.err \in {"ArityError", "MarshalTypeError"}
           /\ UNCHANGED progVars ]_vars


\* C27: deleting an instance that was deleted before raises no error and
\* adds no provenance record: the ledger has the same length and the same
\* cursor after the second deleteClass as before it.
C27_SecondDeleteUnrecorded ==
  [][ (lastOp'.op = DeleteName
         /\ registry.status[lastOp'.args[1].n] = "retired") =>
        /\ lastOp'.err = "none"
        /\ Len(mUndoRedoStack') = Len(mUndoRedoStack)
        /\ mStackPointer' = mStackPointer ]_vars

\* C28: an undo of a deleteClass record brings no deleted instance back:
\* every retired handle stays retired and resolves to "no object", and the
\* cursor moves back by one.
C28_DeleteNotUndone ==
  [][ (lastOp'.op = "provenance.undo" /\ lastOp'.err = "none"
         /\ mStackPointer > 0
         /\ mUndoRedoStack[mStackPointer].function = DeleteName) =>
        /\ \A id \in 1..MaxInstances :
             registry.status[id] = "retired" =>
               /\ registry'.status[id] = "retired"
               /\ resolve(registry', id) = Resolved("none", 0)
        /\ mStackPointer' = mStackPointer - 1 ]_vars

\* The deletion of an instance was undone and the instance is still gone.
C28_Witness ==
  /\ lastOp.op = "provenance.undo"
  /\ lastOp.err = "none"
  /\ Len(mUndoRedoStack) > mStackPointer
  /\ mUndoRedoStack[mStackPointer + 1].function = DeleteName
  /\ mUndoRedoStack[mStackPointer + 1].redoParams = <<InstVal(1)>>
  /\ registry.status[1] = "retired"

\* C29: every handle register returns differs from every handle it
\* returned before, live or retired, and from the sentinel.
C29_HandlesNeverReused ==
  /\ \A i, j \in 1..Len(registry.returned) :
       i # j => registry.returned[i] # registry.returned[j]
  /\ \A i \in 1..Len(registry.returned) :
       registry.returned[i] # DEFAULT_INSTANCE_ID

\* A handle was issued after an earlier one had been retired.
C29_Witness ==
  /\ lastOp.op = "register"
  /\ Len(registry.returned) >= 2
  /\ \E id \in 1..MaxInstances : registry.status[id] = "retired"

\* C30: resolve returns the bound native object for a live handle and "no
\* object", without error, for the sentinel and for a retired handle; it
\* fails with UnknownHandleError exactly for the handles, other than the
\* sentinel, that were never issued.
C30_Resolve ==
  [][ lastOp'.op = "resolve" =>
        LET id == lastOp'.args[1].n
            issued == \E i \in 1..Len(registry.returned) : registry.returned[i] = id
            live == issued /\ registry.status[id] = "live"
        IN /\ live => (lastOp'.err = "none" /\ registry'.resolved = registry.bound[id])
           /\ (id = DEFAULT_INSTANCE_ID \/ (issued /\ ~live)) =>
                (lastOp'.err = "none" /\ registry'.resolved = 0)
           /\ lastOp'.err = "UnknownHandleError" <=>
                (id # DEFAULT_INSTANCE_ID /\ ~issued) ]_vars

\* A retired handle was resolved to "no object".
C30_Witness ==
  /\ lastOp.op = "resolve"
  /\ lastOp.err = "none"
  /\ lastOp.args[1].n \in 1..MaxInstances
  /\ registry.status[lastOp.args[1].n] = "retired"
  /\ registry.resolved = 0


\* C31: an undo or a redo, successful or not, leaves the ledger as it was:
\* the same number of records, each with the same function name, undo
\* parameters and redo parameters; the call the replay makes is not recorded.
C31_ReplayKeepsLedger ==
  [][ lastOp'.op \in {"provenance.undo", "provenance.redo"} =>
        mUndoRedoStack' = mUndoRedoStack ]_vars

\* An undo replayed a call and the ledger still holds its record.
C31_Witness ==
  /\ lastOp.op = "provenance.undo"
  /\ lastOp.err = "none"
  /\ Len(invoked) > 0
  /\ Len(mUndoRedoStack) > mStackPointer


\* C32: when an undo or a redo has finished, whether it succeeded or the
\* replayed call raised an error, logging is no longer suppressed.
C32_ReplayReturnsToIdle ==
  lastOp.op \in {"provenance.undo", "provenance.redo"} =>
    ~mUndoRedoProvenanceDisable

C36_UnregisteredReplayFails ==
  [][ /\ (/\ lastOp'.op = "provenance.undo"
          /\ mStackPointer > 0
          /\ functionTable[mUndoRedoStack[mStackPointer].function] # "callable") =>
            /\ lastOp'.err = "LuaProvenanceInvalidUndo"
            /\ invoked' = <<>>
            /\ mStackPointer' = mStackPointer
            /\ mUndoRedoStack' = mUndoRedoStack
      /\ (/\ lastOp'.op = "provenance.redo"
          /\ mStackPointer < Len(mUndoRedoStack)
          /\ functionTable[mUndoRedoStack[mStackPointer + 1].function] # "callable") =>
            /\ lastOp'.err = "LuaProvenanceInvalidRedo"
            /\ invoked' = <<>>
            /\ mStackPointer' = mStackPointer
            /\ mUndoRedoStack' = mUndoRedoStack ]_vars

\* An undo was refused because the function of the record below the cursor
\* has no function table any more.
C36_Witness ==
  /\ lastOp.op = "provenance.undo"
  /\ lastOp.err = "LuaProvenanceInvalidUndo"
  /\ mStackPointer > 0
  /\ functionTable[mUndoRedoStack[mStackPointer].function] = "nil"
  /\ invoked = <<>>


\* The redo parameters of the newest record of f among the first n records
\* of the ledger, or the defaults of f when there is none.
LatestRedoBelow(f, n) ==
  LET idx == {j \in 1..n : mUndoRedoStack[j].function = f}
  IN  IF idx = {} THEN Defaults(f)
      ELSE mUndoRedoStack[CHOOSE j \in idx : \A k \in idx : k <= j].redoParams

\* C37 as stated: in the states reached by calls, undos and redos (no
\* clearing of the ledger), the last-executed parameters of every logged
\* function are the redo parameters of its newest record below the stack
\* pointer, or its defaults when it has no record there.
C37_LastExecFollowsCursor ==
  ~everCleared =>
    \A f \in LoggedFunctions \cup {DeleteName} :
      lastExec[f] = LatestRedoBelow(f, mStackPointer)

\* C37, amended: they are those redo parameters as they read back from the
\* last-exec table, where the handle of an instance that is no longer live
\* reads back as the default instance id.
C37_LastExecReadsBack ==
  ~everCleared =>
    \A f \in LoggedFunctions \cup {DeleteName} :
      lastExec[f] = throughStack(registry, LatestRedoBelow(f, mStackPointer))

\* A record of set_i1 and the deletion of an instance, the deletion undone:
\* set_i1 has the parameter of its record below the stack pointer, and
\* deleteClass, which has none there, reads back the default instance id.
C37_Witness ==
  /\ ~everCleared
  /\ lastOp.op = "provenance.undo" /\ lastOp.err = "none"
  /\ mStackPointer = 1 /\ Len(mUndoRedoStack) = 2
  /\ mUndoRedoStack[1].function = "set_i1"
  /\ mUndoRedoStack[1].redoParams # Defaults("set_i1")
  /\ lastExec["set_i1"] = mUndoRedoStack[1].redoParams
  /\ mUndoRedoStack[2].function = DeleteName
  /\ mUndoRedoStack[2].redoParams = <<InstVal(1)>>
  /\ lastExec[DeleteName] = <<InstVal(DEFAULT_INSTANCE_ID)>>

\* C38 as stated: in every ledger, the undo parameters of a record of f are
\* the redo parameters of the nearest earlier record of f, or the defaults
\* of f when it is the earliest record of f.
C38_RecordChain ==
  \A j \in 1..Len(mUndoRedoStack) :
    mUndoRedoStack[j].undoParams =
      LatestRedoBelow(mUndoRedoStack[j].function, j - 1)

\* C38, amended: the undo parameters of a record of f are the redo
\* parameters of the nearest earlier record of f as they read back from the
\* last-exec table (the handle of a deleted instance as the default
\* instance id); the earliest record of f has the defaults of f as long as
\* the ledger has never been cleared.
C38_RecordChainReadsBack ==
  \A j \in 1..Len(mUndoRedoStack) :
    LET f == mUndoRedoStack[j].function IN
    \/ mUndoRedoStack[j].undoParams =
         throughStack(registry, LatestRedoBelow(f, j - 1))
    \/ /\ everCleared
       /\ \A k \in 1..(j - 1) : mUndoRedoStack[k].function # f

\* A call after an undo cut the redo history: the new record of set_i1
\* continues from the record the cursor was on.
C38_Witness ==
  /\ Len(mUndoRedoStack) = 2 /\ mStackPointer = 2
  /\ branchCut.phase = "cut"
  /\ lastOp.op = "set_i1" /\ lastOp.err = "none"
  /\ mUndoRedoStack[1].function = "set_i1"
  /\ mUndoRedoStack[2].function = "set_i1"
  /\ mUndoRedoStack[2].undoParams = mUndoRedoStack[1].redoParams

\* C39: the reentry check comes before the replay check and the exemption
\* check: with the reentry exception on, a notification that arrives while
\* another one is being logged fails with LuaProvenanceReenter also when the
\* function is stack exempt or an undo or redo is replaying.
C39_ReentryCheckedFirst ==
  [][ (/\ mLoggingProvenance
       /\ mDoProvReenterException
       /\ lastOp'.op \in AllFunctions
       /\ (StackExempt(lastOp'.op) \/ mUndoRedoProvenanceDisable)) =>
        lastOp'.err = "LuaProvenanceReenter" ]_vars

\* The notification of an exempt function, arriving during a replay while
\* another notification was being logged, has raised LuaProvenanceReenter.
C39_Witness ==
  /\ lastOp.op \in ExemptFunctions
  /\ lastOp.err = "LuaProvenanceReenter"
  /\ mLoggingProvenance
  /\ mDoProvReenterException
  /\ mUndoRedoProvenanceDisable

\* C40: waitAndAccept returns the connection it accepted only if the first
\* four bytes read from it are 'I', 'V', '3', 'D'; when fewer than four
\* bytes were read or one of them differs, the connection is closed and the
\* server has exited without processing a command from it.
C40_MagicGuardsConnection ==
  server.conn_s # "none" =>
    IF server.byteCount = 4 /\ server.buf = <<"I", "V", "3", "D">>
    THEN server.returned
    ELSE /\ ~server.returned
         /\ server.conn_s = "closed"
         /\ server.pc = "exited"
         /\ server.commands = 0

\* Four bytes were read and only the last one differs from the magic; the
\* client had sent a command byte after them.
C40_Witness ==
  /\ server.conn_s = "closed"
  /\ server.pc = "exited"
  /\ server.byteCount = 4
  /\ server.buf = <<"I", "V", "3", "X">>
  /\ Len(server.stream) > 0
  /\ server.commands = 0

====
